---- MODULE Spec2Model ----
(***************************************************************************)
(* Model of the voice-capture-to-chat pipeline of the Calendar Agent       *)
(* mobile client (mobile/CalendarAgentMobile/App.tsx).                      *)
(*                                                                         *)
(* The component state (useState hooks) is the model state.  Every async   *)
(* handler is cut at its await points: the invocation runs up to the first *)
(* await and leaves a task in `tasks`; one action per await resumes the    *)
(* task with an outcome of the awaited platform / network call.            *)
(* JavaScript is single threaded, so each segment between awaits is        *)
(* atomic; React effects that follow a state change (the cleanup of the    *)
(* [recording] effect) are part of the segment that changes the state.     *)
(***************************************************************************)
EXTENDS Integers, Sequences, FiniteSets, Bags

VARIABLES
    messages,            \* useState<Message[]>          App.tsx:35
    inputText,           \* useState('')                 App.tsx:38
    isLoading,           \* useState(false)              App.tsx:41
    isRecording,         \* useState(false)              App.tsx:44
    recording,           \* useState<Audio.Recording|null> App.tsx:46
    recordingUri,        \* useState<string|null>        App.tsx:47
    recordingStartTime,  \* useState<number|null>        App.tsx:48
    now,                 \* Date.now()
    audioMode,           \* platform audio mode (Audio.setAudioModeAsync)
    handles,             \* platform Audio.Recording objects: status by object id
    tasks,               \* suspended async handlers (bag of task records)
    alert                \* the Alert.alert raised by the last handler segment

vars == <<messages, inputText, isLoading, isRecording, recording, recordingUri,
          recordingStartTime, now, audioMode, handles, tasks, alert>>

----------------------------------------------------------------------------
(* Bounds of the model *)

MaxTicks == 3        \* clock advances
MaxHandles == 2      \* Audio.Recording objects in existence at once
MaxCalls == 2        \* start / stop invocations and prompts outstanding at once
MaxSends == 2        \* sends (typed or transcribed) a run may begin

(* The clock advances by half the minimum duration, in ms. *)
Deltas == {500}

----------------------------------------------------------------------------
(* Values *)

Null == 0

(* Strings are sequences of characters so that trim() is computed. *)
SP == " "
Texts == { <<>>, <<SP>>, <<SP, "a", SP>> }
Replies == { <<"o", "k">> }
Apology == <<"s", "o", "r", "r", "y">>

FileSizes == {1000, 2048}

IsSpace(c) == c = SP

RECURSIVE TrimStart(_)
TrimStart(s) ==
    IF s = <<>> THEN <<>>
    ELSE IF IsSpace(Head(s)) THEN TrimStart(Tail(s)) ELSE s

RECURSIVE TrimEnd(_)
TrimEnd(s) ==
    IF s = <<>> THEN <<>>
    ELSE IF IsSpace(s[Len(s)]) THEN TrimEnd(SubSeq(s, 1, Len(s) - 1)) ELSE s

(* String.prototype.trim *)
Trim(s) == TrimEnd(TrimStart(s))

(* JavaScript truthiness of a number|null and of a string *)
Truthy(n) == n # Null
TruthyText(s) == s # <<>>

(* The Audio.Sound of a playRecording call: its status ("none" before it  *)
(* is created, then "playing", "stopped" or "unloaded") and the number of  *)
(* unloadAsync calls made on it.                                           *)
NoSound == [status |-> "none", unloads |-> 0]

Task(pc, h, uri, txt) ==
    [pc |-> pc, h |-> h, uri |-> uri, txt |-> txt,
     file |-> [exists |-> FALSE, size |-> 0], snd |-> NoSound]

Spawn(t) == tasks (+) SetToBag({t})
Finish(t) == tasks (-) SetToBag({t})
Continue(t, u) == (tasks (-) SetToBag({t})) (+) SetToBag({u})

TasksAt(pcs) == {t \in BagToSet(tasks) : t.pc \in pcs}

RECURSIVE SumCopies(_)
SumCopies(S) ==
    IF S = {} THEN 0
    ELSE LET t == CHOOSE x \in S : TRUE
         IN  CopiesIn(t, tasks) + SumCopies(S \ {t})

CountAt(pcs) == SumCopies(TasksAt(pcs))

StartPcs == {"start.perm", "start.mode", "start.prepare", "start.startAsync",
             "start.fallback"}
StopPcs == {"stop.status", "stop.unload", "stop.fileinfo", "stop.resetmode",
            "stop.cleanup", "proc.info"}
SendPcs == {"sendTyped.post", "sendText.post"}
PlayPcs == {"play.mode", "play.create", "play.alert", "play.stop", "play.unload",
            "play.done"}

(* Invocations of startVoiceRecording and stopVoiceRecording that have not *)
(* returned, post-recording choices not yet answered, and playbacks whose  *)
(* sound is still there.                                                   *)
Outstanding == CountAt(StartPcs \cup StopPcs \cup {"prompt"} \cup PlayPcs)

----------------------------------------------------------------------------
(* Platform recording objects *)

(* An object is "new" (constructed), "prepared", "recording" or "unloaded"; *)
(* an id is "free" when no object has it.  An object holds the recorder    *)
(* while it is prepared or recording.                                      *)
HandleIds == 1..MaxHandles

Live(h) == handles[h] \in {"prepared", "recording"}

(* The platform holds at most MaxHandles objects at once: past that, a     *)
(* call that would create one fails.                                       *)
CanCreate == \E h \in HandleIds : handles[h] = "free"

Fresh == CHOOSE h \in HandleIds : handles[h] = "free" /\ \A g \in 1..(h - 1) : handles[g] # "free"

(* Garbage collection: an object that holds no recorder and that neither   *)
(* the state variable nor a suspended handler refers to is gone.           *)
Collect(hs, rec, tk) ==
    [h \in HandleIds |->
        IF /\ hs[h] \in {"new", "unloaded"}
           /\ h # rec
           /\ \A t \in BagToSet(tk) : t.h # h
        THEN "free" ELSE hs[h]]

(* The cleanup of the [recording] effect: when the state variable changes  *)
(* the previous render's cleanup calls stopAndUnloadAsync on the old one.  *)
EffectCleanup(hs, old, new) ==
    IF old # Null /\ old # new
    THEN [hs EXCEPT ![old] = IF @ \in {"prepared", "recording"} THEN "unloaded" ELSE @]
    ELSE hs

----------------------------------------------------------------------------
Init ==
    /\ messages = <<>>
    /\ inputText = <<>>
    /\ isLoading = FALSE
    /\ isRecording = FALSE
    /\ recording = Null
    /\ recordingUri = Null
    /\ recordingStartTime = Null
    /\ now = 1
    /\ audioMode = "idle"
    /\ handles = [h \in HandleIds |-> "free"]
    /\ tasks = EmptyBag
    /\ alert = "none"

(* The clock starts at 1 and has advanced Ticks times. *)
Ticks == (now - 1) \div 500

Tick ==
    /\ Ticks < MaxTicks
    /\ \E d \in Deltas : now' = now + d
    /\ UNCHANGED <<messages, inputText, isLoading, isRecording, recording,
                   recordingUri, recordingStartTime, audioMode, handles, tasks, alert>>

----------------------------------------------------------------------------
(* startVoiceRecording, App.tsx:111-182 *)

(* The outer catch of startVoiceRecording (lines 174-181): alert, then     *)
(* reset the three state variables.  Nothing is released and the audio     *)
(* mode is left as it is.                                                  *)
StartCatch(t) ==
    /\ tasks' = Finish(t)
    /\ isRecording' = FALSE
    /\ recording' = Null
    /\ recordingStartTime' = Null
    /\ handles' = Collect(EffectCleanup(handles, recording, Null), Null, Finish(t))
    /\ alert' = "Failed to start voice recording"
    /\ UNCHANGED <<messages, inputText, isLoading, recordingUri, now, audioMode>>

(* startVoiceRecording that asks for no permission and goes on to the     *)
(* audio mode.                                                             *)
startVoiceRecordingNoQuery ==
    IF recording # Null \/ isRecording
    THEN /\ alert' = "none"
         /\ UNCHANGED <<messages, inputText, isLoading, isRecording, recording,
                        recordingUri, recordingStartTime, now, audioMode,
                        handles, tasks>>
    ELSE /\ Outstanding < MaxCalls
         /\ tasks' = Spawn(Task("start.mode", Null, Null, <<>>))
         /\ alert' = "none"
         /\ UNCHANGED <<messages, inputText, isLoading, isRecording, recording,
                        recordingUri, recordingStartTime, now, audioMode,
                        handles>>

(* Lines 112-121: the guard, then the permission request is issued. *)
startVoiceRecording ==
    IF recording # Null \/ isRecording
    THEN /\ alert' = "none"
         /\ UNCHANGED <<messages, inputText, isLoading, isRecording, recording,
                        recordingUri, recordingStartTime, now, audioMode,
                        handles, tasks>>
    ELSE /\ Outstanding < MaxCalls
         /\ tasks' = Spawn(Task("start.perm", Null, Null, <<>>))
         /\ alert' = "none"
         /\ UNCHANGED <<messages, inputText, isLoading, isRecording, recording,
                        recordingUri, recordingStartTime, now, audioMode,
                        handles>>

PermissionStatuses == {"granted", "denied", "undetermined"}

(* startVoiceRecording that goes on whatever the permission status is. *)
startPermissionResultUnchecked(t, status) ==
    /\ tasks' = Continue(t, [t EXCEPT !.pc = "start.mode"])
    /\ alert' = "none"
    /\ UNCHANGED <<messages, inputText, isLoading, isRecording, recording,
                   recordingUri, recordingStartTime, now, audioMode,
                   handles>>

(* Lines 121-130: Audio.requestPermissionsAsync() resolves with a status;  *)
(* any status but "granted" ends the attempt with the alert.               *)
startPermissionResult(t, status) ==
    IF status = "granted"
    THEN /\ tasks' = Continue(t, [t EXCEPT !.pc = "start.mode"])
         /\ alert' = "none"
         /\ UNCHANGED <<messages, inputText, isLoading, isRecording, recording,
                        recordingUri, recordingStartTime, now, audioMode,
                        handles>>
    ELSE /\ tasks' = Finish(t)
         /\ alert' = "Permission Denied"
         /\ UNCHANGED <<messages, inputText, isLoading, isRecording, recording,
                        recordingUri, recordingStartTime, now, audioMode,
                        handles>>

(* Lines 121-144: Audio.requestPermissionsAsync() resolves, or rejects     *)
(* into the outer catch.                                                   *)
startPermission ==
    \E t \in TasksAt({"start.perm"}) :
      \/ \E status \in PermissionStatuses : startPermissionResult(t, status)
      \/ StartCatch(t)

(* An audio mode that a second call takes back. *)
EnterRecordingModeToggle(mode) == IF mode = "recording" THEN "idle" ELSE "recording"

(* Lines 138-144: the mode Audio.setAudioModeAsync leaves is the one its   *)
(* argument names, whatever the mode was.                                  *)
EnterRecordingMode(mode) == "recording"

(* startVoiceRecording that goes on when the audio mode was refused. *)
startAudioModeResultUnchecked(t, ok) ==
    IF CanCreate
    THEN /\ audioMode' = IF ok THEN EnterRecordingMode(audioMode) ELSE audioMode
         /\ handles' = [handles EXCEPT ![Fresh] = "new"]
         /\ tasks' = Continue(t, [t EXCEPT !.pc = "start.prepare", !.h = Fresh])
         /\ alert' = "none"
         /\ UNCHANGED <<messages, inputText, isLoading, isRecording, recording,
                        recordingUri, recordingStartTime, now>>
    ELSE StartCatch(t)

(* Lines 138-155: setAudioModeAsync({allowsRecordingIOS: true}) resolves;  *)
(* new Audio.Recording() and prepareToRecordAsync is issued.  When it      *)
(* rejects the outer catch is entered.                                     *)
startAudioModeResult(t, ok) ==
    IF ok /\ CanCreate
    THEN /\ audioMode' = EnterRecordingMode(audioMode)
         /\ handles' = [handles EXCEPT ![Fresh] = "new"]
         /\ tasks' = Continue(t, [t EXCEPT !.pc = "start.prepare", !.h = Fresh])
         /\ alert' = "none"
         /\ UNCHANGED <<messages, inputText, isLoading, isRecording, recording,
                        recordingUri, recordingStartTime, now>>
    ELSE StartCatch(t)

startAudioMode ==
    \E t \in TasksAt({"start.mode"}) :
      \E ok \in BOOLEAN : startAudioModeResult(t, ok)

(* Lines 167-171 and the way into them: Audio.Recording.createAsync is     *)
(* issued from the inner catch; the primary object is left as it is.       *)
StartFallback(t) ==
    /\ tasks' = Continue(t, [t EXCEPT !.pc = "start.fallback", !.h = Null])
    /\ handles' = Collect(handles, recording,
                          Continue(t, [t EXCEPT !.pc = "start.fallback", !.h = Null]))
    /\ alert' = "none"
    /\ UNCHANGED <<messages, inputText, isLoading, isRecording, recording,
                   recordingUri, recordingStartTime, now, audioMode>>

(* Lines 155-158: prepareToRecordAsync resolves. *)
startPrepare ==
    \E t \in TasksAt({"start.prepare"}) :
      \E ok \in BOOLEAN :
        IF ok
        THEN /\ handles' = [handles EXCEPT ![t.h] = "prepared"]
             /\ tasks' = Continue(t, [t EXCEPT !.pc = "start.startAsync"])
             /\ alert' = "none"
             /\ UNCHANGED <<messages, inputText, isLoading, isRecording, recording,
                            recordingUri, recordingStartTime, now, audioMode>>
        ELSE StartFallback(t)

(* Lines 161-163 and 168-170: the three setters that enter Recording. *)
EnterRecording(t, h, hs) ==
    /\ recording' = h
    /\ isRecording' = TRUE
    /\ recordingStartTime' = now
    /\ handles' = Collect(EffectCleanup(hs, recording, h), h, Finish(t))
    /\ tasks' = Finish(t)
    /\ UNCHANGED <<messages, inputText, isLoading, recordingUri, now, audioMode>>

(* Lines 158-163: startAsync resolves. *)
startStartAsync ==
    \E t \in TasksAt({"start.startAsync"}) :
      \E ok \in BOOLEAN :
        IF ok
        THEN /\ EnterRecording(t, t.h, [handles EXCEPT ![t.h] = "recording"])
             /\ alert' = "none"
        ELSE StartFallback(t)

(* Lines 167-171: Audio.Recording.createAsync resolves. *)
startFallback ==
    \E t \in TasksAt({"start.fallback"}) :
      \E ok \in {TRUE, FALSE} :
        IF ok /\ CanCreate
        THEN /\ EnterRecording(t, Fresh, [handles EXCEPT ![Fresh] = "recording"])
             /\ alert' = "none"
        ELSE StartCatch(t)

----------------------------------------------------------------------------
(* stopVoiceRecording, App.tsx:184-280 *)

MinDuration == 1000

StopErrors == {"other", "no valid audio data"}

(* The catch of stopVoiceRecording without setRecordingStartTime(null). *)
StopCatchKeepsStartTime(t, hs, err) ==
    /\ tasks' = Finish(t)
    /\ isRecording' = FALSE
    /\ recording' = Null
    /\ handles' = Collect(EffectCleanup(hs, recording, Null), Null, Finish(t))
    /\ alert' = (IF err = "no valid audio data"
                 THEN "Recording Too Short, try again"
                 ELSE "Failed to stop recording")
    /\ UNCHANGED <<messages, inputText, isLoading, recordingUri, recordingStartTime,
                   now, audioMode>>

(* Lines 264-279: the catch of stopVoiceRecording. *)
StopCatch(t, hs, err) ==
    /\ tasks' = Finish(t)
    /\ isRecording' = FALSE
    /\ recording' = Null
    /\ recordingStartTime' = Null
    /\ handles' = Collect(EffectCleanup(hs, recording, Null), Null, Finish(t))
    /\ alert' = (IF err = "no valid audio data"
                 THEN "Recording Too Short, try again"
                 ELSE "Failed to stop recording")
    /\ UNCHANGED <<messages, inputText, isLoading, recordingUri, now, audioMode>>

(* Line 195 *)
RecordingDuration ==
    IF Truthy(recordingStartTime) THEN now - recordingStartTime ELSE 0

(* The guard with the boundary on the wrong side. *)
TooShortInclusive(duration) == duration <= MinDuration

(* Line 196 *)
TooShort(duration) == duration < MinDuration

(* Lines 185-202: the guards, then getStatusAsync is issued. *)
stopVoiceRecording ==
    IF recording = Null
    THEN /\ isRecording' = FALSE
         /\ alert' = "none"
         /\ UNCHANGED <<messages, inputText, isLoading, recording, recordingUri,
                        recordingStartTime, now, audioMode, handles, tasks>>
    ELSE IF TooShort(RecordingDuration)
    THEN /\ alert' = "Recording Too Short"
         /\ UNCHANGED <<messages, inputText, isLoading, isRecording, recording,
                        recordingUri, recordingStartTime, now, audioMode,
                        handles, tasks>>
    ELSE /\ Outstanding < MaxCalls
         /\ tasks' = Spawn(Task("stop.status", recording, Null, <<>>))
         /\ alert' = "none"
         /\ UNCHANGED <<messages, inputText, isLoading, isRecording, recording,
                        recordingUri, recordingStartTime, now, audioMode,
                        handles>>

(* Lines 202-211 and 254-257: getStatusAsync resolves; either branch then  *)
(* issues stopAndUnloadAsync.  An object that is not recording reports so; *)
(* one that is may have been interrupted by the platform.                  *)
stopStatus ==
    \E t \in TasksAt({"stop.status"}) :
      \E out \in {"recording", "notRecording", "throw"} :
        CASE out = "recording" ->
               /\ handles[t.h] = "recording"
               /\ tasks' = Continue(t, [t EXCEPT !.pc = "stop.unload"])
               /\ alert' = "none"
               /\ UNCHANGED <<messages, inputText, isLoading, isRecording, recording,
                              recordingUri, recordingStartTime, now, audioMode,
                              handles>>
          [] out = "notRecording" ->
               /\ tasks' = Continue(t, [t EXCEPT !.pc = "stop.cleanup"])
               /\ alert' = "none"
               /\ UNCHANGED <<messages, inputText, isLoading, isRecording, recording,
                              recordingUri, recordingStartTime, now, audioMode,
                              handles>>
          [] OTHER -> \E err \in StopErrors : StopCatch(t, handles, err)

(* The platform's stopAndUnloadAsync on a live object: the object is       *)
(* unloaded and its file is whatever the platform wrote.                   *)
Unloaded(h) == [handles EXCEPT ![h] = "unloaded"]

(* recording.getURI() (line 213) answers null or the URI of the file the   *)
(* capture was written to.                                                 *)
FileUri == 1

(* What FileSystem.getInfoAsync answers for the file a stop left behind. *)
NoFile == [exists |-> FALSE, size |-> 0]
FileInfos == {NoFile} \cup {[exists |-> TRUE, size |-> n] : n \in FileSizes}

(* Lines 211-219: stopAndUnloadAsync resolves, getURI, then either the     *)
(* file check or the audio-mode reset is issued.                           *)
stopUnload ==
    \E t \in TasksAt({"stop.unload"}) :
      \E ok \in BOOLEAN :
        IF ok /\ Live(t.h)
        THEN \E file \in FileInfos, uri \in {Null, FileUri} :
               /\ uri = Null => file = NoFile
               /\ handles' = Unloaded(t.h)
               /\ tasks' = Continue(t, [t EXCEPT !.uri = uri, !.file = file,
                              !.pc = IF uri # Null THEN "stop.fileinfo" ELSE "stop.resetmode"])
               /\ alert' = "none"
               /\ UNCHANGED <<messages, inputText, isLoading, isRecording, recording,
                              recordingUri, recordingStartTime, now, audioMode>>
        ELSE \E err \in StopErrors :
               StopCatch(t, handles, err)

(* Lines 222-231: what the file check logs. *)
FileCheck(info) ==
    IF info.exists
    THEN IF Truthy(info.size) /\ info.size > 1000 THEN "file.valid" ELSE "file.small"
    ELSE "file.missing"

(* Lines 219-240: FileSystem.getInfoAsync resolves (or throws into the     *)
(* inner catch); the outcome is logged and the audio-mode reset is issued. *)
stopFileInfo ==
    \E t \in TasksAt({"stop.fileinfo"}) :
      \E ok \in BOOLEAN :
        /\ tasks' = Continue(t, [t EXCEPT !.pc = "stop.resetmode"])
        /\ alert' = "none"
        /\ UNCHANGED <<messages, inputText, isLoading, isRecording, recording,
                       recordingUri, recordingStartTime, now, audioMode, handles>>

(* Lines 238-253 and 283-285: setAudioModeAsync({allowsRecordingIOS:false})*)
(* resolves, the state is reset, and processVoiceRecording is entered when *)
(* there is a URI.  When it rejects the catch is entered.                  *)
stopResetModeResult(t, ok) ==
    IF ok
    THEN /\ audioMode' = "idle"
         /\ recordingUri' = t.uri
         /\ recording' = Null
         /\ isRecording' = FALSE
         /\ recordingStartTime' = Null
         /\ IF t.uri # Null
            THEN /\ tasks' = Continue(t, [t EXCEPT !.pc = "proc.info", !.h = Null])
                 /\ alert' = "none"
            ELSE /\ tasks' = Finish(t)
                 /\ alert' = "No audio data was captured"
         /\ handles' = Collect(EffectCleanup(handles, recording, Null), Null, Finish(t))
         /\ UNCHANGED <<messages, inputText, isLoading, now>>
    ELSE \E err \in StopErrors : StopCatch(t, handles, err)

stopResetMode ==
    \E t \in TasksAt({"stop.resetmode"}) :
      \E ok \in BOOLEAN : stopResetModeResult(t, ok)

(* Lines 254-262: the clean-up of an object that was not recording. *)
stopCleanup ==
    \E t \in TasksAt({"stop.cleanup"}) :
      \E ok \in BOOLEAN :
        IF ok /\ Live(t.h)
        THEN /\ recording' = Null
             /\ isRecording' = FALSE
             /\ recordingStartTime' = Null
             /\ handles' = Collect(EffectCleanup(Unloaded(t.h), recording, Null),
                                   Null, Finish(t))
             /\ tasks' = Finish(t)
             /\ alert' = "Recording was not active"
             /\ UNCHANGED <<messages, inputText, isLoading, recordingUri, now,
                            audioMode>>
        ELSE \E err \in StopErrors :
               StopCatch(t, handles, err)

(* processVoiceRecording, lines 282-311: getInfoAsync resolves and the     *)
(* post-recording choice is shown, or it throws and is only logged.        *)
processVoiceRecording ==
    \E t \in TasksAt({"proc.info"}) :
      \E ok \in BOOLEAN :
        /\ IF ok
           THEN /\ tasks' = Continue(t, [t EXCEPT !.pc = "prompt"])
                /\ alert' = "Recording Complete"
           ELSE /\ tasks' = Finish(t)
                /\ alert' = "none"
        /\ UNCHANGED <<messages, inputText, isLoading, isRecording, recording,
                       recordingUri, recordingStartTime, now, audioMode, handles>>

(* Lines 467-473, rendered at 607-612 (stop) and 658-666 (mic). *)
toggleVoiceRecording ==
    /\ isRecording \/ Trim(inputText) = <<>>
    /\ IF isRecording THEN stopVoiceRecording ELSE startVoiceRecording

(* Lines 619-624: the cancel button of the recording UI. *)
cancelRecordingUI ==
    /\ isRecording
    /\ isRecording' = FALSE
    /\ alert' = "none"
    /\ UNCHANGED <<messages, inputText, isLoading, recording, recordingUri,
                   recordingStartTime, now, audioMode, handles, tasks>>

----------------------------------------------------------------------------
(* Message Dispatch, App.tsx:426-531 *)

(* Lines 429-434 and 480-485.  Date.now().toString() is one-to-one, so the *)
(* id is kept as the number it prints.                                     *)
UserMessage(text) ==
    [id |-> now, text |-> Trim(text), sender |-> "user", timestamp |-> now]

(* Lines 445-450, 457-462, 502-507 and 519-524 *)
AssistantMessage(text) ==
    [id |-> now + 1, text |-> text, sender |-> "assistant", timestamp |-> now]

(* What the Chat Transport answers: a reply, or a failure. *)
ChatFailure == [ok |-> FALSE, reply |-> <<>>]
ChatOutcomes == {[ok |-> TRUE, reply |-> r] : r \in Replies} \cup {ChatFailure}

(* The user begins a typed message or a transcription only while fewer     *)
(* than MaxSends sends have been begun.                                    *)
SendsBegun ==
    Cardinality({i \in 1..Len(messages) : messages[i].sender = "user"})
    + CountAt({"conv.post", "timer"})

SendBudget == SendsBegun < MaxSends

(* The guard without the test of the text. *)
SendRejectedLoadingOnly == isLoading

(* Line 477 *)
SendRejected == Trim(inputText) = <<>> \/ isLoading

(* Lines 476-499: sendMessage up to the POST /chat, whatever the input is. *)
sendMessageCall ==
    /\ IF SendRejected
       THEN /\ alert' = "none"
            /\ UNCHANGED <<messages, inputText, isLoading, tasks>>
       ELSE /\ messages' = Append(messages, UserMessage(inputText))
            /\ inputText' = <<>>
            /\ isLoading' = TRUE
            /\ tasks' = Spawn(Task("sendTyped.post", Null, Null, Trim(inputText)))
            /\ alert' = "none"
    /\ UNCHANGED <<isRecording, recording, recordingUri, recordingStartTime, now,
                   audioMode, handles>>

(* sendMessage from the send button, which is rendered when the input has  *)
(* text and the recording UI is not shown (lines 604, 642-657).            *)
sendMessage ==
    /\ ~isRecording
    /\ Trim(inputText) # <<>>
    /\ sendMessageCall

(* sendMessage with the loading flag cleared on the success path only. *)
sendMessageResponseNoFinally(t, out) ==
    /\ IF out.ok
       THEN /\ messages' = Append(messages, AssistantMessage(out.reply))
            /\ alert' = "none"
            /\ isLoading' = FALSE
       ELSE /\ messages' = Append(messages, AssistantMessage(Apology))
            /\ alert' = "Connection Error"
            /\ UNCHANGED isLoading
    /\ tasks' = Finish(t)
    /\ UNCHANGED <<inputText, isRecording, recording, recordingUri,
                   recordingStartTime, now, audioMode, handles>>

(* sendMessage that never clears the loading flag. *)
sendMessageResponseNoClear(t, out) ==
    /\ IF out.ok
       THEN /\ messages' = Append(messages, AssistantMessage(out.reply))
            /\ alert' = "none"
       ELSE /\ messages' = Append(messages, AssistantMessage(Apology))
            /\ alert' = "Connection Error"
    /\ tasks' = Finish(t)
    /\ UNCHANGED <<inputText, isLoading, isRecording, recording, recordingUri,
                   recordingStartTime, now, audioMode, handles>>

(* Lines 499-530: the POST /chat of sendMessage resolves or fails. *)
sendMessageResponse(t, out) ==
    /\ IF out.ok
       THEN /\ messages' = Append(messages, AssistantMessage(out.reply))
            /\ alert' = "none"
       ELSE /\ messages' = Append(messages, AssistantMessage(Apology))
            /\ alert' = "Connection Error"
    /\ isLoading' = FALSE
    /\ tasks' = Finish(t)
    /\ UNCHANGED <<inputText, isRecording, recording, recordingUri,
                   recordingStartTime, now, audioMode, handles>>

sendMessageReply ==
    \E t \in TasksAt({"sendTyped.post"}) :
      \E out \in ChatOutcomes : sendMessageResponse(t, out)

(* sendMessageWithText that issues the call and leaves the conversation   *)
(* and the input as they are.                                              *)
sendMessageWithTextCallFirst(t, text) ==
    /\ IF Trim(text) = <<>>
       THEN /\ tasks' = Finish(t)
       ELSE /\ tasks' = Continue(t, Task("sendText.post", Null, Null, Trim(text)))
    /\ alert' = "none"
    /\ UNCHANGED <<messages, inputText, isLoading, isRecording, recording, recordingUri,
                   recordingStartTime, now, audioMode, handles>>

(* Lines 426-443: sendMessageWithText up to the POST /chat, called by the  *)
(* timer task t.                                                           *)
sendMessageWithText(t, text) ==
    /\ IF Trim(text) = <<>>
       THEN /\ tasks' = Finish(t)
            /\ UNCHANGED <<messages, inputText>>
       ELSE /\ messages' = Append(messages, UserMessage(text))
            /\ inputText' = <<>>
            /\ tasks' = Continue(t, Task("sendText.post", Null, Null, Trim(text)))
    /\ alert' = "none"
    /\ UNCHANGED <<isLoading, isRecording, recording, recordingUri,
                   recordingStartTime, now, audioMode, handles>>

(* sendMessageWithText with a catch that only logs. *)
sendMessageWithTextResponseSilent(t, out) ==
    /\ IF out.ok
       THEN messages' = Append(messages, AssistantMessage(out.reply))
       ELSE UNCHANGED messages
    /\ alert' = "none"
    /\ tasks' = Finish(t)
    /\ UNCHANGED <<inputText, isLoading, isRecording, recording, recordingUri,
                   recordingStartTime, now, audioMode, handles>>

(* sendMessageWithText that puts the reply at the head of the sequence. *)
sendMessageWithTextResponsePrepend(t, out) ==
    /\ IF out.ok
       THEN messages' = <<AssistantMessage(out.reply)>> \o messages
       ELSE messages' = <<AssistantMessage(Apology)>> \o messages
    /\ alert' = "none"
    /\ tasks' = Finish(t)
    /\ UNCHANGED <<inputText, isLoading, isRecording, recording, recordingUri,
                   recordingStartTime, now, audioMode, handles>>

(* Lines 443-464: the POST /chat of sendMessageWithText resolves or fails. *)
sendMessageWithTextResponse(t, out) ==
    /\ IF out.ok
       THEN messages' = Append(messages, AssistantMessage(out.reply))
       ELSE messages' = Append(messages, AssistantMessage(Apology))
    /\ alert' = "none"
    /\ tasks' = Finish(t)
    /\ UNCHANGED <<inputText, isLoading, isRecording, recording, recordingUri,
                   recordingStartTime, now, audioMode, handles>>

sendMessageWithTextReply ==
    \E t \in TasksAt({"sendText.post"}) :
      \E out \in ChatOutcomes : sendMessageWithTextResponse(t, out)

(* Lines 630-639: onChangeText of the TextInput, shown when the recording  *)
(* UI is not and editable while not loading.                               *)
setInputText ==
    /\ ~isRecording
    /\ ~isLoading
    /\ SendBudget
    /\ \E text \in Texts \ {inputText} : inputText' = text
    /\ alert' = "none"
    /\ UNCHANGED <<messages, isLoading, isRecording, recording, recordingUri,
                   recordingStartTime, now, audioMode, handles, tasks>>

----------------------------------------------------------------------------
(* Transcription, App.tsx:364-423 *)

(* What the Transcription Transport answers.  A response (kind "ok") has   *)
(* a body with a text, a body without one, or no body; a failure has the   *)
(* code of the axios error (ECONNABORTED for the 30 s timeout, which has   *)
(* no response) and the status of the response, 0 when there is none.      *)
TranscriptionOutcomes ==
    {[kind |-> "ok", body |-> "text", text |-> x, code |-> "", status |-> 200] : x \in Texts}
    \cup {[kind |-> "ok", body |-> b, text |-> <<>>, code |-> "", status |-> 200] :
             b \in {"noText", "noData"}}
    \cup {[kind |-> "fail", body |-> "noData", text |-> <<>>, code |-> "ECONNABORTED",
            status |-> 0]}
    \cup {[kind |-> "fail", body |-> "noData", text |-> <<>>, code |-> c, status |-> st] :
             c \in {"ERR_NETWORK", "ERR_BAD_REQUEST"}, st \in {0, 404, 500}}

(* Line 387: response.data && response.data.text *)
HasText(out) == out.kind = "ok" /\ out.body = "text" /\ TruthyText(out.text)

(* The alert with 404 responses taken for any other failure. *)
ConversionAlertNo404(out) ==
    IF out.kind = "ok"
    THEN IF HasText(out) THEN "Speech Converted" ELSE "Could not convert speech to text"
    ELSE IF out.code = "ECONNABORTED" THEN "Timeout Error"
    ELSE "Failed to convert speech to text"

(* Lines 387-419: the alert convertSpeechToText raises. *)
ConversionAlert(out) ==
    IF out.kind = "ok"
    THEN IF HasText(out) THEN "Speech Converted" ELSE "Could not convert speech to text"
    ELSE IF out.code = "ECONNABORTED" THEN "Timeout Error"
    ELSE IF out.status = 404 THEN "Backend Error"
    ELSE "Failed to convert speech to text"

(* convertSpeechToText without setIsLoading(true). *)
convertSpeechToTextNoLoading ==
    \E t \in TasksAt({"prompt"}) :
      /\ SendBudget
      /\ tasks' = Continue(t, Task("conv.post", Null, t.uri, <<>>))
      /\ alert' = "none"
      /\ UNCHANGED <<messages, inputText, isLoading, isRecording, recording,
                     recordingUri, recordingStartTime, now, audioMode, handles>>

(* Lines 364-385, from the "Convert to Text" button of the prompt. *)
convertSpeechToText ==
    \E t \in TasksAt({"prompt"}) :
      /\ SendBudget
      /\ isLoading' = TRUE
      /\ tasks' = Continue(t, Task("conv.post", Null, t.uri, <<>>))
      /\ alert' = "none"
      /\ UNCHANGED <<messages, inputText, isRecording, recording, recordingUri,
                     recordingStartTime, now, audioMode, handles>>

(* convertSpeechToText that fills the input but schedules no send. *)
convertSpeechToTextResponseNoTimer(t, out) ==
    /\ IF HasText(out)
       THEN /\ inputText' = Trim(out.text)
            /\ tasks' = Finish(t)
       ELSE /\ tasks' = Finish(t)
            /\ UNCHANGED inputText
    /\ alert' = ConversionAlert(out)
    /\ isLoading' = FALSE
    /\ UNCHANGED <<messages, isRecording, recording, recordingUri,
                   recordingStartTime, now, audioMode, handles>>

(* convertSpeechToText that clears the loading flag on success only. *)
convertSpeechToTextResponseNoFinally(t, out) ==
    /\ IF HasText(out)
       THEN /\ inputText' = Trim(out.text)
            /\ tasks' = Continue(t, Task("timer", Null, Null, Trim(out.text)))
            /\ isLoading' = FALSE
       ELSE /\ tasks' = Finish(t)
            /\ UNCHANGED <<inputText, isLoading>>
    /\ alert' = ConversionAlert(out)
    /\ UNCHANGED <<messages, isRecording, recording, recordingUri,
                   recordingStartTime, now, audioMode, handles>>

(* Lines 387-422: the POST /speech-to-text resolves or fails. *)
convertSpeechToTextResponse(t, out) ==
    /\ IF HasText(out)
       THEN /\ inputText' = Trim(out.text)
            /\ tasks' = Continue(t, Task("timer", Null, Null, Trim(out.text)))
       ELSE /\ tasks' = Finish(t)
            /\ UNCHANGED inputText
    /\ alert' = ConversionAlert(out)
    /\ isLoading' = FALSE
    /\ UNCHANGED <<messages, isRecording, recording, recordingUri,
                   recordingStartTime, now, audioMode, handles>>

convertSpeechToTextReply ==
    \E t \in TasksAt({"conv.post"}) :
      \E out \in TranscriptionOutcomes : convertSpeechToTextResponse(t, out)

(* Lines 395-399: the 500 ms timer fires. *)
autoSend ==
    \E t \in TasksAt({"timer"}) :
      IF TruthyText(t.txt)
      THEN sendMessageWithText(t, t.txt)
      ELSE /\ tasks' = Finish(t)
           /\ alert' = "none"
           /\ UNCHANGED <<messages, inputText, isLoading, isRecording, recording,
                          recordingUri, recordingStartTime, now, audioMode, handles>>

----------------------------------------------------------------------------
(* playRecording, App.tsx:313-362 *)

(* Lines 358-361: the catch of playRecording. *)
PlayCatch(t) ==
    /\ tasks' = Finish(t)
    /\ alert' = "Playback Error"
    /\ UNCHANGED <<messages, inputText, isLoading, isRecording, recording,
                   recordingUri, recordingStartTime, now, audioMode, handles>>

(* Lines 295-296 and 313-322: the "Play Recording" button of the prompt;   *)
(* Audio.setAudioModeAsync for playback is issued.                         *)
playRecording ==
    \E t \in TasksAt({"prompt"}) :
      /\ tasks' = Continue(t, Task("play.mode", Null, t.uri, <<>>))
      /\ alert' = "none"
      /\ UNCHANGED <<messages, inputText, isLoading, isRecording, recording,
                     recordingUri, recordingStartTime, now, audioMode, handles>>

(* Lines 318-328: setAudioModeAsync resolves and Audio.Sound.createAsync   *)
(* is issued, or it rejects into the catch.                                *)
playAudioModeResult(t, ok) ==
    IF ok
    THEN /\ audioMode' = "playback"
         /\ tasks' = Continue(t, [t EXCEPT !.pc = "play.create"])
         /\ alert' = "none"
         /\ UNCHANGED <<messages, inputText, isLoading, isRecording, recording,
                        recordingUri, recordingStartTime, now, handles>>
    ELSE PlayCatch(t)

playAudioMode ==
    \E t \in TasksAt({"play.mode"}) :
      \E ok \in BOOLEAN : playAudioModeResult(t, ok)

(* Lines 325-356: createAsync resolves with a sound that is playing        *)
(* (shouldPlay); the alert with the Stop button is shown and the status    *)
(* callback is registered.                                                 *)
playCreate ==
    \E t \in TasksAt({"play.create"}) :
      \E ok \in BOOLEAN :
        IF ok
        THEN /\ tasks' = Continue(t, [t EXCEPT !.pc = "play.alert",
                                              !.snd = [status |-> "playing", unloads |-> 0]])
             /\ alert' = "Playing Recording"
             /\ UNCHANGED <<messages, inputText, isLoading, isRecording, recording,
                            recordingUri, recordingStartTime, now, audioMode, handles>>
        ELSE PlayCatch(t)

(* Lines 351-356: the sound plays to its end and the status callback       *)
(* (isLoaded, didJustFinish) calls sound.unloadAsync().                    *)
playbackFinished ==
    \E t \in TasksAt(PlayPcs) :
      /\ t.snd.status = "playing"
      /\ tasks' = IF t.pc = "play.done"
                   THEN Finish(t)
                   ELSE Continue(t, [t EXCEPT !.snd = [status |-> "unloaded",
                                                      unloads |-> @.unloads + 1]])
      /\ alert' = "none"
      /\ UNCHANGED <<messages, inputText, isLoading, isRecording, recording,
                     recordingUri, recordingStartTime, now, audioMode, handles>>

(* Lines 336-339: the Stop button; sound.stopAsync() is issued.  On a      *)
(* sound that is no longer loaded the call rejects at once (lines 342-344).*)
playStopPressed ==
    \E t \in TasksAt({"play.alert"}) :
      /\ tasks' = IF t.snd.status = "unloaded"
                   THEN Finish(t)
                   ELSE Continue(t, [t EXCEPT !.pc = "play.stop"])
      /\ alert' = "none"
      /\ UNCHANGED <<messages, inputText, isLoading, isRecording, recording,
                     recordingUri, recordingStartTime, now, audioMode, handles>>

(* Lines 339-344: stopAsync resolves and sound.unloadAsync() is called, or *)
(* it rejects into the catch, which only logs: the handler has ended, and  *)
(* a sound still playing ("play.done") is left to its status callback.     *)
playStopped ==
    \E t \in TasksAt({"play.stop"}) :
      \E ok \in BOOLEAN :
        /\ tasks' = IF ok
                     THEN Continue(t, [t EXCEPT !.pc = "play.unload",
                                                !.snd = [status |-> "unloaded",
                                                         unloads |-> @.unloads + 1]])
                     ELSE IF t.snd.status = "playing"
                     THEN Continue(t, [t EXCEPT !.pc = "play.done"])
                     ELSE Finish(t)
        /\ alert' = "none"
        /\ UNCHANGED <<messages, inputText, isLoading, isRecording, recording,
                       recordingUri, recordingStartTime, now, audioMode, handles>>

(* Lines 340-344: unloadAsync resolves or rejects; either way the handler  *)
(* ends.                                                                   *)
playUnloaded ==
    \E t \in TasksAt({"play.unload"}) :
      /\ tasks' = Finish(t)
      /\ alert' = "none"
      /\ UNCHANGED <<messages, inputText, isLoading, isRecording, recording,
                     recordingUri, recordingStartTime, now, audioMode, handles>>

(* Lines 302-305: the "Cancel" button of the prompt. *)
promptCancel ==
    \E t \in TasksAt({"prompt"}) :
      /\ tasks' = Finish(t)
      /\ alert' = "none"
      /\ UNCHANGED <<messages, inputText, isLoading, isRecording, recording,
                     recordingUri, recordingStartTime, now, audioMode, handles>>

----------------------------------------------------------------------------
(* Specifications *)

RecordingStep ==
    \/ toggleVoiceRecording
    \/ cancelRecordingUI
    \/ startPermission
    \/ startAudioMode
    \/ startPrepare
    \/ startStartAsync
    \/ startFallback
    \/ stopStatus
    \/ stopUnload
    \/ stopFileInfo
    \/ stopResetMode
    \/ stopCleanup
    \/ processVoiceRecording

DispatchStep ==
    \/ convertSpeechToText
    \/ convertSpeechToTextReply
    \/ autoSend
    \/ sendMessageWithTextReply
    \/ setInputText
    \/ sendMessage
    \/ sendMessageReply

PlaybackStep ==
    \/ playRecording
    \/ playAudioMode
    \/ playCreate
    \/ playbackFinished
    \/ playStopPressed
    \/ playStopped
    \/ playUnloaded

(* The whole component. *)
Next == Tick \/ promptCancel \/ RecordingStep \/ DispatchStep \/ PlaybackStep

Spec == Init /\ [][Next]_vars

(* The recording pipeline alone: nothing is typed and every prompt is      *)
(* cancelled.                                                              *)
NextRecording == Tick \/ promptCancel \/ RecordingStep

SpecRecording == Init /\ [][NextRecording]_vars

(* The state the recording pipeline hands over: one capture of 1000 ms was *)
(* stopped, its file validated, and the post-recording choice is showing.  *)
ArtifactOffered ==
    /\ messages = <<>>
    /\ inputText = <<>>
    /\ isLoading = FALSE
    /\ isRecording = FALSE
    /\ recording = Null
    /\ recordingUri = FileUri
    /\ recordingStartTime = Null
    /\ now = 1001
    /\ audioMode = "idle"
    /\ handles = [h \in HandleIds |-> "free"]
    /\ tasks = SetToBag({[Task("prompt", Null, FileUri, <<>>)
                            EXCEPT !.file = [exists |-> TRUE, size |-> 2048]]})
    /\ alert = "Recording Complete"

(* Transcription and Message Dispatch from there on, the recorder idle. *)
NextDispatch == Tick \/ promptCancel \/ DispatchStep

SpecDispatch == ArtifactOffered /\ [][NextDispatch]_vars

(* Timers fire and every network call ends: in a reply, an error, or the   *)
(* transport's timeout.                                                    *)
FairDispatch ==
    /\ WF_vars(autoSend)
    /\ WF_vars(convertSpeechToTextReply)
    /\ WF_vars(sendMessageWithTextReply)
    /\ WF_vars(sendMessageReply)

FairSpecDispatch == SpecDispatch /\ FairDispatch

(* Recording and playback: nothing is typed and nothing is transcribed. *)
NextPlayback == Tick \/ promptCancel \/ RecordingStep \/ PlaybackStep

SpecPlayback == Init /\ [][NextPlayback]_vars

(* The two send handlers called with any text, blank ones included: the    *)
(* send button and the timer only call them with text that is not blank.   *)
Caller == Task("call", Null, Null, <<>>)

sendMessageWithTextCall ==
    \E text \in Texts :
      /\ SendBudget
      /\ sendMessageWithText(Caller, text)

NextHandlers == NextDispatch \/ sendMessageCall \/ sendMessageWithTextCall

SpecHandlers == ArtifactOffered /\ [][NextHandlers]_vars

----------------------------------------------------------------------------
(* Properties *)

Last(q) == q[Len(q)]

IsPrefix(p, q) == Len(p) <= Len(q) /\ SubSeq(q, 1, Len(p)) = p

(* The step appends exactly one Message, of the given sender. *)
AppendsOne(sender) ==
    /\ Len(messages') = Len(messages) + 1
    /\ IsPrefix(messages, messages')
    /\ Last(messages').sender = sender

(* Chat Transport calls in flight *)
InFlight == CountAt(SendPcs)

(* C1: a stopVoiceRecording step taken while a capture is in progress is   *)
(* rejected when less than 1000 ms have passed since startedAt - the only  *)
(* effect is the "Recording Too Short" alert: handle, isRecording,         *)
(* startedAt, the platform objects, the suspended handlers and the         *)
(* messages are unchanged - and is not rejected from 1000 ms on: the stop  *)
(* is begun (getStatusAsync issued on the handle).                         *)
C1_Rejected ==
    /\ alert' = "Recording Too Short"
    /\ UNCHANGED <<messages, inputText, isLoading, isRecording, recording,
                   recordingUri, recordingStartTime, now, audioMode, handles, tasks>>

C1_Begun ==
    /\ alert' # "Recording Too Short"
    /\ tasks' = Spawn(Task("stop.status", recording, Null, <<>>))
    /\ UNCHANGED <<messages, isRecording, recording, recordingUri,
                   recordingStartTime, audioMode, handles>>

C1_ShortStopRejected ==
    [][ (recording # Null /\ recordingStartTime # Null /\ stopVoiceRecording)
          => IF now - recordingStartTime < 1000 THEN C1_Rejected ELSE C1_Begun ]_vars

C1_Witness ==
    /\ alert = "Recording Too Short"
    /\ isRecording
    /\ recording # Null
    /\ Live(recording)
    /\ recordingStartTime # Null
    /\ now - recordingStartTime < 1000
    /\ CountAt(StopPcs) = 0

(* C2: an artifact reaches processVoiceRecording and the post-recording    *)
(* choice only if its file exists and holds at least 1 KB.                 *)
C2_ArtifactValidated ==
    \A t \in TasksAt({"proc.info", "prompt"}) :
        t.file.exists /\ t.file.size >= 1024

(* C3: at most one recording session is active: never two starts pending,  *)
(* nor a start pending beside a live session.                              *)
C3_AtMostOneSession ==
    CountAt(StartPcs) + (IF recording # Null \/ isRecording THEN 1 ELSE 0) <= 1

(* C4: at most one Chat Transport call is in flight. *)
C4_SingleFlight == InFlight <= 1

(* C5: a step that begins a Chat Transport call appends exactly one user   *)
(* Message, a step that ends one appends exactly one assistant Message     *)
(* (a reply or the apology), and no other step changes the messages.       *)
C5_OneMessagePerStep ==
    [][ /\ InFlight' \in {InFlight - 1, InFlight, InFlight + 1}
        /\ InFlight' = InFlight + 1 => AppendsOne("user")
        /\ InFlight' = InFlight - 1 =>
             /\ AppendsOne("assistant")
             /\ Last(messages').text \in Replies \cup {Apology}
        /\ InFlight' = InFlight => messages' = messages ]_vars

C5_Witness ==
    /\ InFlight = 0
    /\ Len(messages) = 4
    /\ Cardinality({i \in 1..4 : messages[i].sender = "user"}) = 2
    /\ \E i \in 1..4 : messages[i].sender = "assistant" /\ messages[i].text = Apology
    /\ \E i \in 1..4 : messages[i].sender = "assistant" /\ messages[i].text \in Replies

(* C6: a transcription answered with a text that is non-empty after        *)
(* trimming schedules the send of the trimmed text; the timer then fires   *)
(* and appends exactly one user Message with that text and issues the Chat *)
(* Transport call, whose end appends exactly one assistant Message.        *)
SendTimer(x) == Task("timer", Null, Null, x)
ChatCall(x) == Task("sendText.post", Null, Null, x)
Transcripts == {Trim(x) : x \in Texts} \ {<<>>}

C6_Scheduled ==
    \A t \in TasksAt({"conv.post"}), out \in TranscriptionOutcomes :
       (out.kind = "ok" /\ Trim(out.text) # <<>> /\ convertSpeechToTextResponse(t, out))
         => CopiesIn(SendTimer(Trim(out.text)), tasks')
              = CopiesIn(SendTimer(Trim(out.text)), tasks) + 1

C6_Dispatched ==
    \A x \in Transcripts :
       CopiesIn(SendTimer(x), tasks') < CopiesIn(SendTimer(x), tasks)
         => /\ AppendsOne("user")
            /\ Last(messages').text = x
            /\ CopiesIn(ChatCall(x), tasks') = CopiesIn(ChatCall(x), tasks) + 1

C6_Answered ==
    \A x \in Transcripts :
       CopiesIn(ChatCall(x), tasks') < CopiesIn(ChatCall(x), tasks)
         => /\ AppendsOne("assistant")
            /\ \E i \in 1..Len(messages) :
                  messages[i].sender = "user" /\ messages[i].text = x

C6_TranscriptReachesDispatch ==
    /\ [][C6_Scheduled /\ C6_Dispatched /\ C6_Answered]_vars
    /\ \A x \in Transcripts :
         (CopiesIn(SendTimer(x), tasks) > 0) ~> (CopiesIn(SendTimer(x), tasks) = 0)
    /\ \A x \in Transcripts :
         (CopiesIn(ChatCall(x), tasks) > 0) ~> (CopiesIn(ChatCall(x), tasks) = 0)

C6_Witness ==
    /\ CopiesIn(ChatCall(<<"a">>), tasks) = 1
    /\ Len(messages) = 1
    /\ Last(messages).sender = "user"
    /\ Last(messages).text = <<"a">>
    /\ alert = "none"

(* C7: when the Chat Transport call of a typed send fails, the user        *)
(* Message of that send is in the sequence, the step appends exactly one   *)
(* assistant Message carrying the apology, raises the connectivity alert   *)
(* and clears the in-flight flag.                                          *)
C7_TypedFailure ==
    [][ \A t \in TasksAt({"sendTyped.post"}) :
          sendMessageResponse(t, ChatFailure)
            => /\ \E i \in 1..Len(messages) :
                     messages[i].sender = "user" /\ messages[i].text = t.txt
               /\ AppendsOne("assistant")
               /\ Last(messages').text = Apology
               /\ alert' = "Connection Error"
               /\ isLoading' = FALSE
               /\ CountAt({"sendTyped.post"})' = CountAt({"sendTyped.post"}) - 1 ]_vars

C7_Witness ==
    /\ alert = "Connection Error"
    /\ ~isLoading
    /\ Len(messages) = 2
    /\ messages[1].sender = "user"
    /\ messages[2].sender = "assistant"
    /\ messages[2].text = Apology
    /\ InFlight = 0

(* C8: sendMessageWithText(text) has the effects sendMessage has with that *)
(* text as input: rejected while a send is in flight, else the user        *)
(* Message appended, the input cleared and the in-flight flag set; the     *)
(* flag cleared when the call ends, with the connectivity alert when it    *)
(* fails.                                                                  *)
C8_TypedBegin(text) ==
    IF Trim(text) = <<>> \/ isLoading
    THEN UNCHANGED <<messages, inputText, isLoading>>
    ELSE /\ messages' = Append(messages, UserMessage(text))
         /\ inputText' = <<>>
         /\ isLoading' = TRUE

C8_TypedEnd(out) ==
    /\ AppendsOne("assistant")
    /\ Last(messages').text = (IF out.ok THEN out.reply ELSE Apology)
    /\ isLoading' = FALSE
    /\ alert' = (IF out.ok THEN "none" ELSE "Connection Error")

C8_SamePathAsTyped ==
    [][ /\ \A t \in TasksAt({"timer"}) :
             sendMessageWithText(t, t.txt) => C8_TypedBegin(t.txt)
        /\ \A t \in TasksAt({"sendText.post"}), out \in ChatOutcomes :
             sendMessageWithTextResponse(t, out) => C8_TypedEnd(out) ]_vars

(* C9: after a failure of start or stop (the alert of either catch), once  *)
(* no other start or stop is under way, no recording object is left        *)
(* prepared or recording and the audio mode is idle.                       *)
FailureAlerts ==
    {"Failed to start voice recording", "Failed to stop recording",
     "Recording Too Short, try again"}

SessionUnderWay ==
    recording # Null \/ CountAt(StartPcs \cup (StopPcs \ {"proc.info"})) > 0

C9_ReleasedOnFailure ==
    (alert \in FailureAlerts /\ ~SessionUnderWay)
      => /\ audioMode = "idle"
         /\ \A h \in HandleIds : ~Live(h)

(* C10: the step of a stop that found the backend not recording and raises *)
(* its alert releases the handle, offers no artifact, appends no Message,  *)
(* resets the session and leaves the audio mode idle.                      *)
C10_NotRecordingTornDown ==
    [][ \A t \in TasksAt({"stop.cleanup"}) :
          (alert' = "Recording was not active" /\ tasks' = Finish(t))
            => /\ ~Live(t.h)'
               /\ TasksAt({"proc.info", "prompt"})' = TasksAt({"proc.info", "prompt"})
               /\ messages' = messages
               /\ recordingUri' = recordingUri
               /\ recording' = Null
               /\ ~isRecording'
               /\ recordingStartTime' = Null
               /\ audioMode' = "idle" ]_vars

(* C11: the recorder is never left unable to start: no reachable state has *)
(* the capture handle still set with the recording UI closed and no start  *)
(* or stop under way (from there every start returns at its guard, and     *)
(* nothing is left that clears the handle).                                *)
Wedged ==
    /\ recording # Null
    /\ ~isRecording
    /\ CountAt(StartPcs \cup (StopPcs \ {"proc.info"})) = 0

WedgedForGood == [][Wedged => (Wedged' /\ recording' = recording)]_vars

C11_CanStartAgain == ~Wedged

(* C12: the step of the cancel control releases the capture handle, clears *)
(* startedAt, resets the audio mode and leaves the session Idle.           *)
C12_CancelTearsDown ==
    [][ cancelRecordingUI
          => /\ recording # Null => ~Live(recording)'
             /\ recording' = Null
             /\ ~isRecording'
             /\ recordingStartTime' = Null
             /\ audioMode' = "idle" ]_vars

(* C14: a capture that begins finds the audio mode in recording mode, and  *)
(* a step that leaves Recording (the handle is cleared) leaves the audio   *)
(* mode idle.                                                              *)
C14_ModeBracketsCapture ==
    [][ /\ (recording' # Null /\ recording' # recording) => audioMode' = "recording"
        /\ (recording # Null /\ recording' = Null) => audioMode' = "idle" ]_vars

(* C13: sound.unloadAsync() is called exactly once on the sound of a       *)
(* playback: never twice, and once when the sound is gone.                 *)
C13_ReleasedOnce ==
    \A t \in TasksAt(PlayPcs) :
        /\ t.snd.unloads <= 1
        /\ t.snd.status = "unloaded" => t.snd.unloads = 1

(* C15: a sound starts playing with the audio mode in playback mode, and   *)
(* the step that ends the playback (natural completion or stop) leaves the *)
(* audio mode idle.                                                        *)
Playing == \E t \in BagToSet(tasks) : t.snd.status = "playing"

C15_ModeBracketsPlayback ==
    [][ /\ (~Playing /\ Playing') => audioMode' = "playback"
        /\ (Playing /\ ~Playing') => audioMode' = "idle" ]_vars


(* C16: every failed transcription is reported under exactly one class:    *)
(* a request timeout as "Timeout Error", a 404 response as "Backend        *)
(* Error", a response whose text is the empty string or is missing as      *)
(* "Could not convert speech to text", and every other failure as "Failed  *)
(* to convert speech to text"; only a response with a text is reported as  *)
(* converted.  A text is empty when it is the empty string, as line 387    *)
(* tests it: a text of spaces only counts as a text.                       *)
C16_Class(out) ==
    CASE out.kind = "fail" /\ out.code = "ECONNABORTED" -> "Timeout Error"
      [] out.kind = "fail" /\ out.code # "ECONNABORTED" /\ out.status = 404 -> "Backend Error"
      [] out.kind = "fail" /\ out.code # "ECONNABORTED" /\ out.status # 404 ->
             "Failed to convert speech to text"
      [] out.kind = "ok" /\ (out.body # "text" \/ out.text = <<>>) ->
             "Could not convert speech to text"
      [] out.kind = "ok" /\ out.body = "text" /\ out.text # <<>> -> "Speech Converted"

C16_FailureClassified ==
    [][ \A t \in TasksAt({"conv.post"}), out \in TranscriptionOutcomes :
          convertSpeechToTextResponse(t, out) => alert' = C16_Class(out) ]_vars

C16_Witness ==
    /\ alert = "Backend Error"
    /\ CountAt({"conv.post"}) = 0
    /\ ~isLoading

(* C17: a failed transcription raises its failure alert, leaves the        *)
(* conversation as it was, schedules no send and issues no Chat Transport  *)
(* call, clears the loading flag and leaves the recorder idle.             *)
C17_Failed(out) == ~(out.kind = "ok" /\ out.body = "text" /\ out.text # <<>>)

C18_AppendOnly ==
    /\ [][IsPrefix(messages, messages')]_vars
    /\ [](\A i, j \in 1..Len(messages) :
             i < j => messages[i].timestamp <= messages[j].timestamp)

C18_Witness ==
    /\ Len(messages) >= 3
    /\ messages[1].timestamp < Last(messages).timestamp
    /\ \E i \in 1..Len(messages) : messages[i].sender = "assistant"

(* C19: no two Messages of the sequence have the same id. *)
C19_UniqueIds ==
    \A i, j \in 1..Len(messages) : i # j => messages[i].id # messages[j].id

(* C20: every assistant Message stands immediately after a user Message,   *)
(* the one whose send produced it.                                         *)
C20_ReplyFollowsItsMessage ==
    \A i \in 1..Len(messages) :
       messages[i].sender = "assistant"
         => i > 1 /\ messages[i - 1].sender = "user"


(* C21: the loading flag set by a typed send is cleared in all cases: the  *)
(* step that ends its Chat Transport call, in a reply or in a failure,     *)
(* leaves the flag false; while the call is in flight the flag eventually  *)
(* becomes false; and the flag is never left true once no call is in       *)
(* flight.                                                                 *)
C21_TypedInFlight == CountAt({"sendTyped.post"}) > 0

C21_FlagCleared ==
    /\ [][ \A t \in TasksAt({"sendTyped.post"}), out \in ChatOutcomes :
             sendMessageResponse(t, out) => ~isLoading' ]_vars
    /\ C21_TypedInFlight ~> ~isLoading
    /\ [](CountAt({"sendTyped.post", "conv.post"}) = 0 => ~isLoading)

C21_Witness ==
    /\ CountAt({"prompt"}) = 1
    /\ Len(messages) = 2
    /\ messages[1].sender = "user"
    /\ messages[2].sender = "assistant" /\ messages[2].text \in Replies
    /\ ~isLoading
    /\ InFlight = 0


(* C22: when the permission is not granted the attempt ends there: the     *)
(* permission alert is raised, the audio mode is not changed, no recording *)
(* object is created, the start time is not set and the session does not   *)
(* enter Recording.                                                        *)
C22_DeniedStaysIdle ==
    [][ \A t \in TasksAt({"start.perm"}), status \in PermissionStatuses \ {"granted"} :
          startPermissionResult(t, status)
            => /\ alert' = "Permission Denied"
               /\ tasks' = Finish(t)
               /\ UNCHANGED <<audioMode, handles, recording, isRecording,
                              recordingStartTime>>
               /\ (recording = Null /\ ~isRecording)
                    => (recording' = Null /\ ~isRecording' /\ recordingStartTime' = Null) ]_vars

C22_Witness ==
    /\ alert = "Permission Denied"
    /\ tasks = EmptyBag
    /\ audioMode = "idle"
    /\ handles = [h \in HandleIds |-> "free"]
    /\ recording = Null /\ ~isRecording /\ recordingStartTime = Null
    /\ now = 1

(* C23: the permission is asked for exactly once by every start that       *)
(* passes the guard, whatever the earlier answers were, and not at all by  *)
(* a start the guard rejects; no other step asks for it.                   *)
C23_Queries == CountAt({"start.perm"})

C23_StartStep == ~isRecording /\ toggleVoiceRecording

C23_QueriedOncePerAttempt ==
    [][ /\ (C23_StartStep /\ recording = Null) => C23_Queries' = C23_Queries + 1
        /\ (C23_StartStep /\ recording = Null /\ alert = "Permission Denied")
             => C23_Queries' = C23_Queries + 1
        /\ (C23_StartStep /\ recording # Null) => C23_Queries' = C23_Queries
        /\ C23_Queries' > C23_Queries
             => (C23_StartStep /\ recording = Null /\ C23_Queries' = C23_Queries + 1) ]_vars

(* A start was just denied and the next one can be made. *)
C23_Witness ==
    /\ alert = "Permission Denied"
    /\ C23_Queries = 0
    /\ recording = Null /\ ~isRecording
    /\ Outstanding < MaxCalls
    /\ ENABLED C23_StartStep


C25_Stops(h) == {t \in TasksAt(StopPcs \ {"proc.info"}) : t.h = h}

C25_Overlapping(h) == SumCopies(C25_Stops(h)) >= 2

C25_SecondStopHarmless ==
    [][ \A t \in TasksAt({"stop.unload", "stop.cleanup"}) :
          (C25_Overlapping(t.h) /\ handles[t.h] = "unloaded" /\ tasks' = Finish(t))
            => alert' \notin {"Failed to stop recording",
                              "Recording Too Short, try again"} ]_vars


(* C26: while a capture is in progress, the audio mode recording and the   *)
(* object of the state variable recording, no step switches the audio mode *)
(* to playback.                                                            *)
C26_CaptureInProgress ==
    /\ audioMode = "recording"
    /\ recording # Null
    /\ handles[recording] = "recording"

C26_NoPlaybackDuringCapture ==
    [][C26_CaptureInProgress => audioMode' # "playback"]_vars


(* C27: a send whose text is empty after trimming has no effect, in        *)
(* sendMessage and in sendMessageWithText alike: no Message is appended,   *)
(* the input and the loading flag are as they were and no Chat Transport   *)
(* call is issued.                                                         *)
C27_NoEffect == UNCHANGED <<messages, inputText, isLoading, tasks>>

C27_BlankSendRejected ==
    [][ /\ (Trim(inputText) = <<>> /\ sendMessageCall) => C27_NoEffect
        /\ \A text \in Texts :
             (Trim(text) = <<>> /\ sendMessageWithText(Caller, text)) => C27_NoEffect ]_vars

(* The input holds spaces only and nothing is in flight. *)
C27_Witness ==
    /\ inputText = <<SP>>
    /\ ~isLoading
    /\ messages = <<>>
    /\ InFlight = 0
    /\ ENABLED sendMessageCall


(* C28: a transcription answered with a text that is empty after trimming, *)
(* a text of spaces only included, is reported as the no-speech error, not *)
(* as a success, and appends no Message and issues no Chat Transport call. *)
C28_BlankTranscriptIsNoSpeech ==
    [][ \A t \in TasksAt({"conv.post"}), out \in TranscriptionOutcomes :
          (out.kind = "ok" /\ out.body = "text" /\ Trim(out.text) = <<>>
             /\ convertSpeechToTextResponse(t, out))
            => /\ alert' = "Could not convert speech to text"
               /\ messages' = messages
               /\ CountAt(SendPcs)' = CountAt(SendPcs) ]_vars


(* C29: a rejected audio-mode call ends the handler that made it, with an  *)
(* alert.  In start: no recording object is created and the session is not *)
(* Recording.  In stop: no artifact is offered.  In play: no sound is      *)
(* loaded.                                                                 *)
C29_StartAborted(t) ==
    /\ alert' = "Failed to start voice recording"
    /\ tasks' = Finish(t)
    /\ recording' = Null /\ ~isRecording' /\ recordingStartTime' = Null
    /\ \A h \in HandleIds : handles'[h] # handles[h] => ~Live(h)'
    /\ audioMode' = audioMode

C29_StopAborted(t) ==
    /\ alert' \in {"Failed to stop recording", "Recording Too Short, try again"}
    /\ tasks' = Finish(t)
    /\ recordingUri' = recordingUri
    /\ CountAt({"proc.info", "prompt"})' = CountAt({"proc.info", "prompt"})

C29_PlayAborted(t) ==
    /\ alert' = "Playback Error"
    /\ tasks' = Finish(t)
    /\ audioMode' = audioMode
    /\ \A u \in BagToSet(tasks') : u.snd.status # "none" => u \in BagToSet(tasks)

C29_ModeFailureAborts ==
    [][ /\ \A t \in TasksAt({"start.mode"}) :
             startAudioModeResult(t, FALSE) => C29_StartAborted(t)
        /\ \A t \in TasksAt({"stop.resetmode"}) :
             stopResetModeResult(t, FALSE) => C29_StopAborted(t)
        /\ \A t \in TasksAt({"play.mode"}) :
             playAudioModeResult(t, FALSE) => C29_PlayAborted(t) ]_vars

(* The playback of an artifact ended at its audio-mode call. *)
C29_Witness ==
    /\ alert = "Playback Error"
    /\ audioMode = "idle"
    /\ tasks = EmptyBag
    /\ recordingUri = FileUri


(* C30: in every accepted send the step that issues the Chat Transport     *)
(* call has appended the user Message with the text of the call and has    *)
(* cleared the input; an assistant Message is appended only by the step    *)
(* that ends a call; so every user Message has exactly one call, in flight *)
(* or answered by one assistant Message.                                   *)
C30_Count(sender) ==
    Cardinality({i \in 1..Len(messages) : messages[i].sender = sender})

C30_CallIssued ==
    InFlight' > InFlight
      => /\ InFlight' = InFlight + 1
         /\ AppendsOne("user")
         /\ inputText' = <<>>
         /\ \E t \in BagToSet(tasks') :
               /\ t.pc \in SendPcs
               /\ CopiesIn(t, tasks') = CopiesIn(t, tasks) + 1
               /\ t.txt = Last(messages').text

C30_ReplyAppended ==
    (Len(messages') > Len(messages) /\ Last(messages').sender = "assistant")
      => /\ InFlight' = InFlight - 1
         /\ AppendsOne("assistant")

C30_SendOrder ==
    /\ [][C30_CallIssued /\ C30_ReplyAppended]_vars
    /\ [](C30_Count("user") = C30_Count("assistant") + InFlight)

C30_Witness ==
    /\ CountAt({"sendTyped.post"}) = 1
    /\ Len(messages) = 1
    /\ messages[1].sender = "user"
    /\ inputText = <<>>
    /\ isLoading


(* C31: the start time is set exactly when the state variable recording    *)
(* holds an object: it is set only by the step that enters Recording,      *)
(* together with an object that is recording and to the clock of that      *)
(* step, and every step that clears the variable clears the start time.    *)
C31_Coupled == (recordingStartTime # Null) <=> (recording # Null)

C31_SetOnEntering ==
    (recordingStartTime' # recordingStartTime /\ recordingStartTime' # Null)
      => /\ recording' # Null
         /\ handles'[recording'] = "recording"
         /\ isRecording'
         /\ recordingStartTime' = now

C31_ClearedWithHandle ==
    (recording # Null /\ recording' = Null) => recordingStartTime' = Null

C31_StartedAtFollowsHandle ==
    /\ []C31_Coupled
    /\ [][C31_SetOnEntering /\ C31_ClearedWithHandle]_vars

C31_Witness ==
    /\ recordingStartTime = 501
    /\ recording # Null
    /\ handles[recording] = "recording"
    /\ isRecording
    /\ tasks = EmptyBag


(* C32: in every state the flag isRecording is true if and only if the     *)
(* state variable recording holds an object.                               *)
C32_FlagMatchesHandle == isRecording <=> (recording # Null)


(* C33: a recording object is stopped and unloaded at most once: when the  *)
(* state variable recording changes, and the cleanup of its effect calls   *)
(* stopAndUnloadAsync on the object it held, that object has not been      *)
(* unloaded already.                                                       *)
C33_CleanupCalled == recording # Null /\ recording' # recording

C33_UnloadedOnce ==
    [][C33_CleanupCalled => handles[recording] # "unloaded"]_vars


(* C34: the loading flag is true for as long as the Chat Transport call of *)
(* a typed send is in flight.                                              *)
C34_LoadingWhileTypedInFlight == CountAt({"sendTyped.post"}) > 0 => isLoading

(* C35: the step that issues the Transcription Transport call has set the  *)
(* loading flag; the step that ends the call clears it on every outcome;   *)
(* a typed send made while the flag is true changes nothing; and the timer *)
(* of the chained send is armed only by the step that clears the flag, so  *)
(* the chained send comes after it.                                        *)
C35_Transcribing == CountAt({"conv.post"})

C35_Timers == CountAt({"timer"})

C35_FlagAroundTranscription ==
    [][ /\ C35_Transcribing' > C35_Transcribing => isLoading'
        /\ \A t \in TasksAt({"conv.post"}), out \in TranscriptionOutcomes :
             convertSpeechToTextResponse(t, out) => ~isLoading'
        /\ (isLoading /\ sendMessageCall)
             => UNCHANGED <<messages, inputText, isLoading, tasks>>
        /\ C35_Timers' > C35_Timers
             => (C35_Transcribing' = C35_Transcribing - 1 /\ ~isLoading') ]_vars

(* A transcription is in flight and the send button is there to be tapped. *)
C35_Witness ==
    /\ C35_Transcribing = 1
    /\ isLoading
    /\ Trim(inputText) # <<>>
    /\ InFlight = 0
    /\ ENABLED sendMessage


(* C36: when the post-recording choice is presented the session is Idle:   *)
(* the state variable recording is null, the flag isRecording is false,    *)
(* the start time is null and the audio mode is not recording; and Cancel  *)
(* changes no state and appends no Message.                                *)
C36_Presented == CountAt({"prompt"})' > CountAt({"prompt"})

C36_IdleWhenPresented ==
    [][ /\ C36_Presented
             => /\ recording' = Null
                /\ ~isRecording'
                /\ recordingStartTime' = Null
                /\ audioMode' # "recording"
        /\ promptCancel
             => UNCHANGED <<messages, inputText, isLoading, isRecording, recording,
                            recordingUri, recordingStartTime, audioMode, handles>> ]_vars


(* C37: when the primary object fails to prepare or start, the fallback    *)
(* either succeeds, and the session is Recording with the start time set   *)
(* and the fallback the only object that holds the recorder, or fails, and *)
(* the session has its Idle values and the error alert is raised.          *)
C37_FallbackEnds == CountAt({"start.fallback"})' < CountAt({"start.fallback"})

C37_FallbackFailed ==
    /\ alert' = "Failed to start voice recording"
    /\ recording' = Null /\ ~isRecording' /\ recordingStartTime' = Null

C37_FallbackRecording ==
    /\ recording' # Null
    /\ isRecording'
    /\ recordingStartTime' = now
    /\ {h \in HandleIds : Live(h)'} = {recording'}

C37_FallbackLeavesOneHandle ==
    [][C37_FallbackEnds => (C37_FallbackFailed \/ C37_FallbackRecording)]_vars

====
